---- MODULE Spec2Model ----
(***************************************************************************)
(* Model of src/cogs/DetectAI.py: the detect_ai invocation (browser         *)
(* session, completion poller, result parser and aggregation) and the      *)
(* presentation functions of AIDetectionResult.                            *)
(***************************************************************************)
EXTENDS Integers, Sequences, FiniteSets, TLC

VARIABLES
    pc,               \* position of the operation in progress
    sessionOpen,      \* a chrome driver was launched and quit() was not called
    error,            \* the exception that ended detect_ai, "none" otherwise
    textareaPresent,  \* the loaded page has a textarea
    buttonPresent,    \* the loaded page has a button
    rateLimitShown,   \* the page shows the rate limit error element
    resultShown,      \* the page shows div.scan-text-editor-result
    round,            \* iterations of the poller's for loop completed
    probe,            \* the probe the poller runs next: "rate" or "scan"
    pollState,        \* Idle, Polling, RateLimited, ResultReady, TimedOut
    elapsed,          \* time units the poller has blocked in probes that found nothing
    rateProbePage,    \* what the page showed at the latest rate limit probe
    scanProbePage,    \* what the page showed at the latest scan result probe
    soup,             \* the parsed page source
    result,           \* the AIDetectionResult returned by detect_ai
    self,             \* the AIDetectionResult a presentation method is called on
    rendered          \* what the presentation method returned

vars == <<pc, sessionOpen, error, textareaPresent, buttonPresent, rateLimitShown,
          resultShown, round, probe, pollState, elapsed, rateProbePage,
          scanProbePage, soup, result, self, rendered>>

pageVars == <<textareaPresent, buttonPresent, rateLimitShown, resultShown>>
pollVars == <<round, probe, pollState, elapsed, rateProbePage, scanProbePage>>
presentVars == <<self, rendered>>

(***************************************************************************)
(* Program constants and bounds                                            *)
(***************************************************************************)
N == 10

RateLimitTimeout == 1

ScanResultTimeout == 1

SummaryLimit == 10

SummaryEdge == 5

\* probabilities of the page are written in tenths: Scale stands for 1.0
Scale == 10

MaxSpans == 2

MaxWords == 12

MaxDen == 20

None == "None"

Human == "Written by a __**Human**__"

ArtificialIntelligence == "Generated by __**AI**__"

AuthorPredication == {Human, ArtificialIntelligence}

NoPage == [rate |-> FALSE, scan |-> FALSE]

\* no page source was read yet
NoSoup == [container |-> FALSE, spans |-> <<>>]

(***************************************************************************)
(* Completion poller: wait_for_processing_completion                       *)
(***************************************************************************)
\* WebDriverWait(...).until(presence_of_element_located(rate limit xpath))
wait_for_rate_limit_error_never == FALSE

wait_for_rate_limit_error == rateLimitShown

\* WebDriverWait(...).until(presence_of_element_located(div.scan-text-editor-result))
wait_for_scan_result == resultShown

\* a probe that finds its element returns at once, one that does not blocks
\* for its whole timeout
ProbeElapsed(found, timeout) == IF found THEN 0 ELSE timeout

\* the value wait_for_processing_completion returns: True when rate limited
ReturnedSwapped(rateLimited) == IF rateLimited THEN "ResultReady" ELSE "RateLimited"

Returned(rateLimited) == IF rateLimited THEN "RateLimited" ELSE "ResultReady"

\* for _ in range(10) has run all its iterations
LoopExhaustedOffByOne == round >= N + 1

LoopExhausted == round >= N

Polling == pc = "wait" /\ pollState = "Polling"

ProbeRateLimit ==
    /\ Polling /\ ~LoopExhausted /\ probe = "rate"
    /\ LET found == wait_for_rate_limit_error IN
         /\ elapsed' = elapsed + ProbeElapsed(found, RateLimitTimeout)
         /\ rateProbePage' = [rate |-> rateLimitShown, scan |-> resultShown]
         /\ IF found
            THEN pollState' = Returned(TRUE) /\ probe' = probe
            ELSE pollState' = pollState /\ probe' = "scan"
    /\ UNCHANGED <<pc, sessionOpen, error, pageVars, round, scanProbePage, soup, result,
                   presentVars>>

ProbeScanResult ==
    /\ Polling /\ ~LoopExhausted /\ probe = "scan"
    /\ LET found == wait_for_scan_result IN
         /\ elapsed' = elapsed + ProbeElapsed(found, ScanResultTimeout)
         /\ scanProbePage' = [rate |-> rateLimitShown, scan |-> resultShown]
         /\ IF found
            THEN pollState' = Returned(FALSE) /\ probe' = probe /\ round' = round
            ELSE pollState' = pollState /\ probe' = "rate" /\ round' = round + 1
    /\ UNCHANGED <<pc, sessionOpen, error, pageVars, rateProbePage, soup, result,
                   presentVars>>

RaiseTimeout ==
    /\ Polling /\ LoopExhausted
    /\ pollState' = "TimedOut"
    /\ UNCHANGED <<pc, sessionOpen, error, pageVars, round, probe, elapsed,
                   rateProbePage, scanProbePage, soup, result, presentVars>>

\* the provider's page renders or removes its indicators at any time
PageUpdate ==
    /\ sessionOpen
    /\ \/ Polling
       \/ pc = "page_source"
    /\ \E rl \in BOOLEAN, sr \in BOOLEAN :
         /\ <<rl, sr>> # <<rateLimitShown, resultShown>>
         /\ rateLimitShown' = rl
         /\ resultShown' = sr
    /\ UNCHANGED <<pc, sessionOpen, error, textareaPresent, buttonPresent, pollVars,
                   soup, result, presentVars>>

PollerInit ==
    /\ pc = "wait"
    /\ sessionOpen = TRUE
    /\ error = "none"
    /\ textareaPresent = TRUE
    /\ buttonPresent = TRUE
    /\ rateLimitShown = FALSE
    /\ resultShown = FALSE
    /\ round = 0
    /\ probe = "rate"
    /\ pollState = "Polling"
    /\ elapsed = 0
    /\ rateProbePage = NoPage
    /\ scanProbePage = NoPage
    /\ soup = NoSoup
    /\ result = None
    /\ self = None
    /\ rendered = <<>>

PollerStep == ProbeRateLimit \/ ProbeScanResult \/ RaiseTimeout

PollerNext == PollerStep \/ PageUpdate

\* every probe returns within its timeout, so the poller keeps taking steps
PollerSpec == PollerInit /\ [][PollerNext]_vars /\ WF_vars(PollerStep)

(***************************************************************************)
(* Result parser and aggregation: parse_result_element                     *)
(***************************************************************************)
\* An attribute of a span is <<>> when it is absent or does not parse as a
\* number (KeyError, ValueError, TypeError), and <<n>> when it parses as n.
\* cl-scan-probability is written in tenths (<<8>> stands for "0.8").
WordsAttr == {<<>>, <<-1>>, <<0>>, <<1>>, <<2>>}

ProbAttr == {<<>>, <<-5>>, <<0>>, <<8>>, <<10>>, <<15>>}

\* the span at position i of the container, its text standing for itself
SpansAt(i) == [words : WordsAttr, prob : ProbAttr, human : BOOLEAN, text : {i}]

SpanSeqs(n) == {s \in [1..n -> UNION {SpansAt(i) : i \in 1..n}] :
                  \A i \in 1..n : s[i].text = i}

\* the soups BeautifulSoup can build from a page source
Soups(containerShown) ==
    IF containerShown
    THEN {[container |-> TRUE, spans |-> s] :
            s \in UNION {SpanSeqs(n) : n \in 0..MaxSpans}}
    ELSE {[container |-> FALSE, spans |-> <<>>]}

Parses(attr) == attr # <<>>

\* int(span_element["cl-scan-words"]), float(span_element["cl-scan-probability"])
Number(attr) == attr[1]

Rat(n, d) == [num |-> n, den |-> d]

Leaf(span) ==
    [word_count |-> Number(span.words),
     text |-> <<span.text>>,
     confidence |-> Rat(Number(span.prob), Scale),
     author_predication |-> IF span.human THEN Human ELSE ArtificialIntelligence,
     parts |-> <<>>]

\* the first loop: spans without both attributes are skipped
RECURSIVE ParseSpans(_)
ParseSpans(spans) ==
    IF spans = <<>> THEN <<>>
    ELSE LET span == Head(spans) IN
         IF ~Parses(span.words) \/ ~Parses(span.prob)
         THEN ParseSpans(Tail(spans))
         ELSE <<Leaf(span)>> \o ParseSpans(Tail(spans))

\* the body of the second loop, with total_words counted for Human parts only
AccumulateHumanWordsOnly(acc, part) ==
    IF part.author_predication = Human
    THEN [total_words |-> acc.total_words + part.word_count,
          total_signed_confidence |->
              acc.total_signed_confidence + part.confidence.num * part.word_count]
    ELSE [total_words |-> acc.total_words,
          total_signed_confidence |->
              acc.total_signed_confidence - part.confidence.num * part.word_count]

\* the body of the second loop; total_signed_confidence is kept in 1/Scale
Accumulate(acc, part) ==
    [total_words |-> acc.total_words + part.word_count,
     total_signed_confidence |->
         IF part.author_predication = Human
         THEN acc.total_signed_confidence + part.confidence.num * part.word_count
         ELSE acc.total_signed_confidence - part.confidence.num * part.word_count]

RECURSIVE Totals(_, _)
Totals(acc, parts) ==
    IF parts = <<>> THEN acc
    ELSE Totals(Accumulate(acc, Head(parts)), Tail(parts))

Sign(x) == IF x < 0 THEN -1 ELSE 1

Abs(x) == IF x < 0 THEN -x ELSE x

\* total_signed_confidence / total_words, with a positive denominator
Divide(total_signed_confidence, total_words) ==
    Rat(total_signed_confidence * Sign(total_words), Scale * Abs(total_words))

\* the branch on overall_signed_confidence, taking the AI branch at 0 as well
OverallAtMostZero(overall_signed_confidence) ==
    IF overall_signed_confidence.num <= 0
    THEN [author_predication |-> ArtificialIntelligence,
          confidence |-> Rat(-overall_signed_confidence.num, overall_signed_confidence.den)]
    ELSE [author_predication |-> Human, confidence |-> overall_signed_confidence]

Overall(overall_signed_confidence) ==
    IF overall_signed_confidence.num < 0
    THEN [author_predication |-> ArtificialIntelligence,
          confidence |-> Rat(-overall_signed_confidence.num, overall_signed_confidence.den)]
    ELSE [author_predication |-> Human, confidence |-> overall_signed_confidence]

\* the outcome of parse_result_element: the aggregate, or the exception raised
parse_result_element(result_element) ==
    LET parts == ParseSpans(result_element.spans)
        totals == Totals([total_words |-> 0, total_signed_confidence |-> 0], parts)
    IN  IF totals.total_words = 0
        THEN [raised |-> "ZeroDivisionError", value |-> None]
        ELSE LET overall == Overall(Divide(totals.total_signed_confidence,
                                           totals.total_words))
             IN  [raised |-> "none",
                  value |-> [word_count |-> totals.total_words,
                             text |-> [i \in 1..Len(result_element.spans) |->
                                         result_element.spans[i].text],
                             author_predication |-> overall.author_predication,
                             confidence |-> overall.confidence,
                             parts |-> parts]]

(***************************************************************************)
(* detect_ai                                                               *)
(***************************************************************************)
PollIdle ==
    /\ round' = 0
    /\ probe' = "rate"
    /\ pollState' = "Idle"
    /\ elapsed' = 0
    /\ rateProbePage' = NoPage
    /\ scanProbePage' = NoPage

PageGone ==
    /\ textareaPresent' = FALSE
    /\ buttonPresent' = FALSE
    /\ rateLimitShown' = FALSE
    /\ resultShown' = FALSE

\* driver = launch_chrome()
LaunchChrome ==
    /\ pc = "launch_chrome"
    /\ \/ /\ sessionOpen' = TRUE
          /\ pc' = "get"
          /\ error' = error
       \/ /\ sessionOpen' = FALSE
          /\ pc' = "raised"
          /\ error' = "WebDriverException"
    /\ UNCHANGED <<pageVars, pollVars, soup, result, presentVars>>

\* driver.get(url): the page loads, with or without its controls, or fails to
Get ==
    /\ pc = "get"
    /\ \/ /\ \E ta \in BOOLEAN, bt \in BOOLEAN :
               textareaPresent' = ta /\ buttonPresent' = bt
          /\ pc' = "submit_text"
          /\ error' = error
       \/ /\ UNCHANGED <<textareaPresent, buttonPresent>>
          /\ pc' = "raised"
          /\ error' = "WebDriverException"
    /\ UNCHANGED <<sessionOpen, rateLimitShown, resultShown, pollVars, soup, result,
                   presentVars>>

\* submit_text(driver, text), and the entry into wait_for_processing_completion
SubmitText ==
    /\ pc = "submit_text"
    /\ IF textareaPresent /\ buttonPresent
       THEN /\ pc' = "wait"
            /\ error' = error
            /\ pollState' = "Polling"
            /\ UNCHANGED <<round, probe, elapsed, rateProbePage, scanProbePage>>
       ELSE /\ pc' = "raised"
            /\ error' = "NoSuchElementException"
            /\ UNCHANGED pollVars
    /\ UNCHANGED <<sessionOpen, pageVars, soup, result, presentVars>>

\* if wait_for_processing_completion(driver): driver.quit(); raise Exception(...)
RateLimitedQuit ==
    /\ pc = "wait" /\ pollState = "RateLimited"
    /\ sessionOpen' = FALSE
    /\ PageGone
    /\ pc' = "raised"
    /\ error' = "Exception: You have reached your limit for the day."
    /\ PollIdle
    /\ UNCHANGED <<soup, result, presentVars>>

\* the TimeoutError of wait_for_processing_completion leaves detect_ai
TimeoutPropagates ==
    /\ pc = "wait" /\ pollState = "TimedOut"
    /\ pc' = "raised"
    /\ error' = "TimeoutError"
    /\ PollIdle
    /\ UNCHANGED <<sessionOpen, pageVars, soup, result, presentVars>>

ResultReadyReturns ==
    /\ pc = "wait" /\ pollState = "ResultReady"
    /\ pc' = "page_source"
    /\ PollIdle
    /\ UNCHANGED <<sessionOpen, error, pageVars, soup, result, presentVars>>

\* soup = bs4.BeautifulSoup(driver.page_source, "html.parser"); driver.quit()
PageSource ==
    /\ pc = "page_source"
    /\ \E s \in Soups(resultShown) : soup' = s
    /\ sessionOpen' = FALSE
    /\ PageGone
    /\ pc' = "parse"
    /\ UNCHANGED <<error, pollVars, result, presentVars>>

\* result_element = soup.select_one(...); assert result_element;
\* return parse_result_element(result_element)
ParseResult ==
    /\ pc = "parse"
    /\ IF ~soup.container
       THEN /\ pc' = "raised"
            /\ error' = "AssertionError"
            /\ result' = result
       ELSE LET outcome == parse_result_element(soup) IN
            IF outcome.raised # "none"
            THEN /\ pc' = "raised"
                 /\ error' = outcome.raised
                 /\ result' = result
            ELSE /\ pc' = "returned"
                 /\ error' = error
                 /\ result' = outcome.value
    /\ UNCHANGED <<sessionOpen, pageVars, pollVars, soup, presentVars>>

Init ==
    /\ pc = "launch_chrome"
    /\ sessionOpen = FALSE
    /\ error = "none"
    /\ textareaPresent = FALSE
    /\ buttonPresent = FALSE
    /\ rateLimitShown = FALSE
    /\ resultShown = FALSE
    /\ round = 0
    /\ probe = "rate"
    /\ pollState = "Idle"
    /\ elapsed = 0
    /\ rateProbePage = NoPage
    /\ scanProbePage = NoPage
    /\ soup = NoSoup
    /\ result = None
    /\ self = None
    /\ rendered = <<>>

Next ==
    \/ LaunchChrome
    \/ Get
    \/ SubmitText
    \/ ProbeRateLimit
    \/ ProbeScanResult
    \/ RaiseTimeout
    \/ PageUpdate
    \/ RateLimitedQuit
    \/ TimeoutPropagates
    \/ ResultReadyReturns
    \/ PageSource
    \/ ParseResult

Spec == Init /\ [][Next]_vars

(***************************************************************************)
(* Presentation: AIDetectionResult.__str__ and text_summary                *)
(***************************************************************************)
\* no invocation of detect_ai is in progress
NoInvocation ==
    /\ sessionOpen = FALSE
    /\ error = "none"
    /\ textareaPresent = FALSE
    /\ buttonPresent = FALSE
    /\ rateLimitShown = FALSE
    /\ resultShown = FALSE
    /\ round = 0
    /\ probe = "rate"
    /\ pollState = "Idle"
    /\ elapsed = 0
    /\ rateProbePage = NoPage
    /\ scanProbePage = NoPage
    /\ soup = NoSoup
    /\ result = None

detectVars == <<sessionOpen, error, pageVars, pollVars, soup, result>>

\* the rational q is less than tenths / 10
LessOrEqualTenths(q, tenths) == q.num * 10 <= tenths * q.den

LessTenths(q, tenths) == q.num * 10 < tenths * q.den

\* f"{x:.1%}": x in tenths of a percent, rounded half to even
PerMille(q) ==
    LET n == q.num * 1000
        whole == n \div q.den
        rest == n % q.den
    IN  IF 2 * rest < q.den THEN whole
        ELSE IF 2 * rest > q.den THEN whole + 1
        ELSE IF whole % 2 = 0 THEN whole ELSE whole + 1

\* f"{tier} {self.author_predication.value}\n{self.confidence:.1%} Confident"
Labelled(tier, r) == [tier |-> tier, shown |-> <<r.author_predication>>,
                      permille |-> <<PerMille(r.confidence)>>]

\* __str__ with "Inconclusive" up to and including 0.2
StrInconclusiveAtBound(r) ==
    IF LessOrEqualTenths(r.confidence, 2)
    THEN [tier |-> "Inconclusive", shown |-> <<>>, permille |-> <<>>]
    ELSE IF LessTenths(r.confidence, 6) THEN Labelled("Plausibly", r)
    ELSE IF LessTenths(r.confidence, 9) THEN Labelled("Probably", r)
    ELSE Labelled("Certainly", r)

Str(r) ==
    IF LessTenths(r.confidence, 2)
    THEN [tier |-> "Inconclusive", shown |-> <<>>, permille |-> <<>>]
    ELSE IF LessTenths(r.confidence, 6) THEN Labelled("Plausibly", r)
    ELSE IF LessTenths(r.confidence, 9) THEN Labelled("Probably", r)
    ELSE Labelled("Certainly", r)

\* the results __str__ is applied to: every confidence n/d up to MaxDen, and
\* the nearest values outside [0,1]
StrInputs ==
    {[author_predication |-> a, confidence |-> Rat(n, d), word_count |-> 1,
      text |-> <<"1">>, parts |-> <<>>] :
        a \in AuthorPredication,
        n \in -1..(MaxDen + 1),
        d \in 1..MaxDen}

StrInit ==
    /\ pc = "str"
    /\ NoInvocation
    /\ self \in {r \in StrInputs : r.confidence.num <= r.confidence.den + 1}
    /\ rendered = <<>>

CallStr ==
    /\ pc = "str"
    /\ rendered' = Str(self)
    /\ pc' = "str_done"
    /\ UNCHANGED <<detectVars, self>>

StrSpec == StrInit /\ [][CallStr]_vars

Space == " "

\* str.split(): the maximal runs of characters that are not whitespace
RECURSIVE SplitFrom(_, _, _)
SplitFrom(text, word, words) ==
    IF text = <<>>
    THEN IF word = <<>> THEN words ELSE Append(words, word)
    ELSE IF Head(text) = Space
         THEN SplitFrom(Tail(text), <<>>,
                        IF word = <<>> THEN words ELSE Append(words, word))
         ELSE SplitFrom(Tail(text), Append(word, Head(text)), words)

Split(text) == SplitFrom(text, <<>>, <<>>)

\* " ".join(words)
RECURSIVE Join(_)
Join(words) ==
    IF words = <<>> THEN <<>>
    ELSE IF Len(words) = 1 THEN words[1]
    ELSE words[1] \o <<Space>> \o Join(Tail(words))

FirstWords(words, n) == SubSeq(words, 1, n)

LastWords(words, n) == SubSeq(words, Len(words) - n + 1, Len(words))

Snippet(text, words) ==
    Join(FirstWords(words, SummaryEdge)) \o <<Space, "[...]", Space>>
        \o Join(LastWords(words, SummaryEdge))

\* f"{self.word_count} words\n{text_snippet}"
Summary(word_count, text_snippet) == <<ToString(word_count), " words\n">> \o text_snippet

\* text_summary that shortens a text of SummaryLimit words already
text_summary_strict(r) ==
    LET words == Split(r.text) IN
      Summary(r.word_count,
              IF Len(words) < SummaryLimit THEN r.text ELSE Snippet(r.text, words))

text_summary(r) ==
    LET words == Split(r.text) IN
      Summary(r.word_count,
              IF Len(words) <= SummaryLimit THEN r.text ELSE Snippet(r.text, words))

\* the words "1", "2", ... "n", each followed by tail, with sep between them
RECURSIVE Text(_, _, _)
Text(n, sep, tail) ==
    IF n = 0 THEN <<>>
    ELSE IF n = 1 THEN <<"1">> \o tail
    ELSE Text(n - 1, sep, tail) \o sep \o <<ToString(n)>> \o tail

\* texts of 0..MaxWords words: single spaced, double spaced, of longer words,
\* and with leading and trailing whitespace
Texts ==
    UNION {{Text(n, <<Space>>, <<>>),
            Text(n, <<Space, Space>>, <<>>),
            Text(n, <<Space>>, <<"s">>),
            <<Space>> \o Text(n, <<Space>>, <<>>) \o <<Space>>} : n \in 0..MaxWords}

SummaryInputs ==
    {[author_predication |-> Human, confidence |-> Rat(Scale, Scale),
      word_count |-> wc, text |-> t, parts |-> <<>>] :
        wc \in 0..MaxWords, t \in Texts}

SummaryInit ==
    /\ pc = "text_summary"
    /\ NoInvocation
    /\ self \in SummaryInputs
    /\ rendered = <<>>

CallTextSummary ==
    /\ pc = "text_summary"
    /\ rendered' = text_summary(self)
    /\ pc' = "text_summary_done"
    /\ UNCHANGED <<detectVars, self>>

SummarySpec == SummaryInit /\ [][CallTextSummary]_vars

(***************************************************************************)
(* Claims about detect_ai, checked under Spec                              *)
(***************************************************************************)
Final == {"returned", "raised"}

\* C1 (as claimed): an invocation of detect_ai that opened a browser session
\* has closed it when it ends, whatever the exit path.
C1_SessionReleased == pc \in Final => ~sessionOpen

RECURSIVE SumTo(_, _)
SumTo(f, n) == IF n = 0 THEN 0 ELSE f[n] + SumTo(f, n - 1)

\* the sum of the word counts of a sequence of results
WordSum(parts) == SumTo([i \in 1..Len(parts) |-> parts[i].word_count], Len(parts))

\* the word-weighted sum, in 1/Scale, of the confidences of the parts of a class
ClassSum(parts, class) ==
    SumTo([i \in 1..Len(parts) |->
             IF parts[i].author_predication = class
             THEN parts[i].word_count * parts[i].confidence.num
             ELSE 0], Len(parts))

SignedSum(parts) == ClassSum(parts, Human) - ClassSum(parts, ArtificialIntelligence)

AllOf(parts, class) == \A i \in 1..Len(parts) : parts[i].author_predication = class

\* the spans of the soup that carry both attributes, by position
Informative(spans) ==
    {i \in 1..Len(spans) : spans[i].words # <<>> /\ spans[i].prob # <<>>}

InRange(r) ==
    /\ r.word_count >= 0
    /\ r.confidence.num >= 0
    /\ r.confidence.num <= r.confidence.den

LeavesInRange(parts) == \A i \in 1..Len(parts) : InRange(parts[i])

\* the rational q equals n / d
RatEq(q, n, d) == q.num * d = n * q.den

\* C4 (as claimed): aggregating no leaves, or leaves of 0 words in total, ends
\* in AggregationError, without returning a result.
C4_AggregationError ==
    (pc \in Final /\ soup.container /\ WordSum(ParseSpans(soup.spans)) = 0)
        => (pc = "raised" /\ error = "AggregationError")

\* C5: for leaves with word_count >= 0, confidence in [0,1] and W > 0 words in
\* total, the aggregate has word_count W, has the leaves as its parts in their
\* order, and has a confidence in [0,1].
C5_AggregationCorrect ==
    (pc = "returned" /\ LeavesInRange(result.parts)) =>
        /\ result.word_count = WordSum(result.parts)
        /\ result.word_count > 0
        /\ Len(result.parts) = Cardinality(Informative(soup.spans))
        /\ \A i \in 1..Len(result.parts) :
             LET span == soup.spans[result.parts[i].text[1]] IN
               /\ result.parts[i].text[1] \in Informative(soup.spans)
               /\ result.parts[i].word_count = span.words[1]
               /\ result.parts[i].confidence.num = span.prob[1]
               /\ result.parts[i].confidence.den = Scale
               /\ (result.parts[i].author_predication = Human) = span.human
               /\ result.parts[i].parts = <<>>
        /\ \A i, j \in 1..Len(result.parts) :
             i < j => result.parts[i].text[1] < result.parts[j].text[1]
        /\ result.confidence.num >= 0
        /\ result.confidence.num <= result.confidence.den

\* two leaves in range, of 1 and 2 words and of different classes
C5_Witness ==
    /\ pc = "returned"
    /\ LeavesInRange(result.parts)
    /\ Len(result.parts) = 2
    /\ result.parts[1].word_count = 1
    /\ result.parts[2].word_count = 2
    /\ result.parts[1].author_predication # result.parts[2].author_predication
    /\ result.word_count = 3

\* C6 (as claimed): the result detect_ai returns and each leaf in its parts
\* have a confidence in [0,1] and a word_count >= 0, whatever the attributes
\* of the spans.
C6_DataModelInvariant ==
    pc = "returned" => (InRange(result) /\ LeavesInRange(result.parts))

\* C7, the part that holds of every leaf sequence with W > 0 words in total
C7_SignedAverage ==
    LET S == SignedSum(result.parts)
        W == WordSum(result.parts)
    IN  /\ (result.author_predication = Human) = (S >= 0)
        /\ RatEq(result.confidence, Abs(S), Scale * W)
        /\ result.confidence.den > 0

TieCase(parts) ==
    /\ Len(parts) = 2
    /\ parts[1].word_count = parts[2].word_count
    /\ parts[1].author_predication = Human
    /\ parts[2].author_predication = ArtificialIntelligence
    /\ parts[1].confidence = Rat(8, Scale)
    /\ parts[2].confidence = Rat(8, Scale)

\* C7 (as amended): with W > 0, the aggregate predicts Human exactly when the
\* signed sum is >= 0, with confidence |signed sum / W|; the tie of a Human and
\* an AI leaf, both of 0.8, gives Human at 0; leaves all Human with a mean >= 0
\* give Human at the word-weighted mean, leaves all AI with a mean > 0 give AI
\* at that mean, and leaves all AI with a mean of 0 give Human at 0.
C7_Aggregate ==
    (pc = "returned" /\ result.word_count > 0) =>
        LET parts == result.parts
            W == WordSum(parts)
            H == ClassSum(parts, Human)
            A == ClassSum(parts, ArtificialIntelligence)
        IN  /\ C7_SignedAverage
            /\ TieCase(parts) =>
                 (result.author_predication = Human /\ result.confidence.num = 0)
            /\ (AllOf(parts, Human) /\ H >= 0) =>
                 /\ result.author_predication = Human
                 /\ RatEq(result.confidence, H, Scale * W)
            /\ (AllOf(parts, ArtificialIntelligence) /\ A > 0) =>
                 /\ result.author_predication = ArtificialIntelligence
                 /\ RatEq(result.confidence, A, Scale * W)
            /\ (AllOf(parts, ArtificialIntelligence) /\ A = 0) =>
                 /\ result.author_predication = Human
                 /\ result.confidence.num = 0

\* the tie of the claim: Human at 0.8 against AI at 0.8, resolved to Human at 0
C7_Witness ==
    /\ pc = "returned"
    /\ result.word_count > 0
    /\ TieCase(result.parts)
    /\ result.author_predication = Human
    /\ result.confidence.num = 0

\* C7 (as claimed), for leaves in range: with W > 0 the aggregate follows the
\* signed sum, and leaves that all predict one class give that class at the
\* word-weighted mean of their confidences.
C7_Claimed ==
    (pc = "returned" /\ result.word_count > 0 /\ LeavesInRange(result.parts)) =>
        /\ C7_SignedAverage
        /\ \A class \in AuthorPredication :
             AllOf(result.parts, class) =>
               /\ result.author_predication = class
               /\ RatEq(result.confidence, ClassSum(result.parts, class),
                        Scale * WordSum(result.parts))

(***************************************************************************)
(* Claims about the completion poller, checked under PollerSpec            *)
(***************************************************************************)
BothShown(page) == page.rate /\ page.scan

Terminal == {"ResultReady", "RateLimited", "TimedOut"}

C3_Safe ==
    /\ pollState \in Terminal \cup {"Polling"}
    /\ round \in 0..N
    \* a probe that observes its indicator returns in that round with that state
    /\ rateProbePage.rate => pollState = "RateLimited"
    /\ scanProbePage.scan => pollState = "ResultReady"
    \* a terminal state is entered by the first observation, all earlier probes
    \* having found nothing
    /\ pollState = "RateLimited" =>
         /\ rateProbePage.rate
         /\ round < N
         /\ elapsed = (RateLimitTimeout + ScanResultTimeout) * round
    /\ pollState = "ResultReady" =>
         /\ scanProbePage.scan
         /\ round < N
         /\ elapsed = (RateLimitTimeout + ScanResultTimeout) * round + RateLimitTimeout
    \* TimedOut exactly when all the probes of all N rounds found nothing
    /\ pollState = "TimedOut" =>
         /\ round = N
         /\ elapsed = (RateLimitTimeout + ScanResultTimeout) * N
         /\ ~rateProbePage.rate
         /\ ~scanProbePage.scan
    /\ (round = N /\ ENABLED PollerStep) => ENABLED RaiseTimeout
    /\ ~(ENABLED RaiseTimeout /\ (ENABLED ProbeRateLimit \/ ENABLED ProbeScanResult))

\* C3: the poller ends in exactly one of ResultReady, RateLimited and TimedOut
\* within N = 10 rounds; it ends in TimedOut exactly when no probe of the 10
\* rounds observed its indicator, runs no 11th round, and a probe of round k that
\* observes its indicator makes it return in round k with the matching state.
C3_PollerTerminates ==
    /\ []C3_Safe
    /\ (pollState = "Polling") ~> (pollState \in Terminal)
    /\ (pollState = "Polling" /\ round = N) ~> (pollState = "TimedOut")
    /\ [][(pollState \in Terminal) => (pollVars' = pollVars)]_vars

\* the result indicator is first observed in a round after the first
C3_Witness ==
    /\ pollState = "ResultReady"
    /\ round = N - 1
    /\ scanProbePage.scan

\* C10 (as amended): the poller blocks for at most 2 x N x per-probe timeout =
\* 20 time units, each round running two probes of 1 time unit.
C10_BlockingBound == elapsed <= N * (RateLimitTimeout + ScanResultTimeout)

\* neither indicator ever appears: all 20 probes run to their timeout
C10_Witness ==
    /\ pollState = "TimedOut"
    /\ elapsed = N * (RateLimitTimeout + ScanResultTimeout)

\* C10 (as claimed): the poller blocks for at most N x per-probe timeout = 10
\* time units.
C10_Claimed == elapsed <= N * RateLimitTimeout

(***************************************************************************)
(* Claims about the presentation functions                                 *)
(***************************************************************************)
\* the confidence q is at least tenths / 10
AtLeast(q, tenths) == tenths * q.den <= 10 * q.num

\* the confidence q lies in [lo, hi), both in tenths
Within(q, lo, hi) == AtLeast(q, lo) /\ ~AtLeast(q, hi)

TierOf(q) ==
    CASE AtLeast(q, 9) -> "Certainly"
      [] Within(q, 6, 9) -> "Probably"
      [] Within(q, 2, 6) -> "Plausibly"
      [] OTHER -> "Inconclusive"

\* C8: the label is Inconclusive, showing no class, below 0.2, Plausibly in
\* [0.2, 0.6), Probably in [0.6, 0.9) and Certainly from 0.9 on, each with the
\* class of the result; 0.2, 0.6 and 0.9 give Plausibly, Probably and Certainly.
\* Checked under StrSpec.
C8_LabelTiers ==
    pc = "str_done" =>
        LET q == self.confidence IN
          /\ rendered.tier = TierOf(q)
          /\ (rendered.tier = "Inconclusive") = (5 * q.num < q.den)
          /\ rendered.tier = "Inconclusive" => rendered.shown = <<>>
          /\ rendered.tier # "Inconclusive" => rendered.shown = <<self.author_predication>>
          /\ RatEq(q, 2, 10) => rendered.tier = "Plausibly"
          /\ RatEq(q, 6, 10) => rendered.tier = "Probably"
          /\ RatEq(q, 9, 10) => rendered.tier = "Certainly"
          /\ (q.num >= 0 /\ q.num <= q.den) =>
               Cardinality({t \in {<<0, 2, "Inconclusive">>, <<2, 6, "Plausibly">>,
                                   <<6, 9, "Probably">>, <<9, 11, "Certainly">>} :
                              Within(q, t[1], t[2]) /\ rendered.tier = t[3]}) = 1

\* a confidence of exactly 0.2 is labelled Plausibly
C8_Witness ==
    /\ pc = "str_done"
    /\ RatEq(self.confidence, 2, 10)
    /\ rendered.tier = "Plausibly"
    /\ rendered.shown = <<self.author_predication>>

\* where the words of a text start
WordStarts(text) ==
    {i \in 1..Len(text) : text[i] # Space /\ (i = 1 \/ text[i - 1] = Space)}

WordCountOf(text) == Cardinality(WordStarts(text))

\* C9 (as amended): text_summary returns the result's word_count field and
\* " words" on a first line, then the text verbatim when it has at most 10
\* words, and otherwise its first 5 words, a [...] marker and its last 5 words,
\* single spaced. Checked under SummarySpec.
C9_TextSummary ==
    pc = "text_summary_done" =>
        LET n == WordCountOf(self.text)
            text_snippet == SubSeq(rendered, 3, Len(rendered))
            words == Split(self.text)
            shown == Split(text_snippet)
        IN  /\ Len(rendered) >= 2
            /\ rendered[1] = ToString(self.word_count)
            /\ rendered[2] = " words\n"
            /\ n <= SummaryLimit => text_snippet = self.text
            /\ n > SummaryLimit =>
                 /\ Len(shown) = 2 * SummaryEdge + 1
                 /\ \A i \in 1..SummaryEdge :
                      /\ shown[i] = words[i]
                      /\ shown[SummaryEdge + 1 + i] = words[n - SummaryEdge + i]
                 /\ shown[SummaryEdge + 1] = <<"[...]">>
                 /\ Len(text_snippet) =
                      SumTo([i \in 1..Len(shown) |-> Len(shown[i])], Len(shown))
                        + 2 * SummaryEdge

\* a double spaced text of exactly 10 words is returned as it is, under a word
\* count that is not its number of words
C9_Witness ==
    /\ pc = "text_summary_done"
    /\ WordCountOf(self.text) = SummaryLimit
    /\ Len(self.text) > 2 * SummaryLimit
    /\ self.word_count = 3
    /\ SubSeq(rendered, 3, Len(rendered)) = self.text

\* C9 (as claimed): text_summary returns a text of at most 10 words verbatim,
\* and for a longer text the first 5 words, [...] and the last 5 words, prefixed
\* by the number of words of the text.
C9_Claimed ==
    pc = "text_summary_done" =>
        LET n == WordCountOf(self.text)
            words == Split(self.text)
        IN  /\ n <= SummaryLimit => rendered = self.text
            /\ n > SummaryLimit =>
                 rendered = <<ToString(n), " words\n">> \o Snippet(self.text, words)

====
